---- MODULE Spec2Model ----
(***************************************************************************)
(* Model of the resumable crawl pipeline of the Commtrex scrapers          *)
(* (commtrex_flaresolverr_scraper.py and commtrex_railcar_storage_         *)
(* scraper.py; their main loops, fetchers and checkpoint code are the      *)
(* same line for line, so one state machine models both).                  *)
(*                                                                         *)
(* The state is the three files on disk (URL list, checkpoint, output      *)
(* table), the locals of main() and flaresolverr_get(), and observation    *)
(* variables that record what the run did (requests made, sleeps,          *)
(* checkpoint writes).  A behaviour is a chain of runs of the program on   *)
(* the same disk.                                                          *)
(*                                                                         *)
(* The retrying fetcher of verify_commtrex_counts.py                       *)
(* (scrape_with_scrapingbee) is modelled beside them, in a variable of     *)
(* its own.                                                                *)
(***************************************************************************)
EXTENDS Integers, Sequences, FiniteSets, TLC

\* ------------------------------------------------------------------ bounds

\* Runs of the program chained on one disk (short input files).  The long
\* input file is crawled once, from an empty disk and without --resume.
MaxRuns == 2
\* Largest value of --limit tried (0 = no cap).
MaxLimit == 1
\* Largest value of the parameter retries of scrape_with_scrapingbee.
MaxBeeRetries == 3
\* Length of the long input file, the one on which the checkpoint cadence shows.
NumLong == 26
\* Abnormal events per run of the long input file: a URL whose first fetch
\* attempt meets anything but a clean facility page, a failed session
\* creation, an interrupt, a failed checkpoint write.  Runs of the short
\* input files are not limited.
MaxLongFaults == 1

\* ------------------------------------------------------- program constants

DELAY_BETWEEN_REQUESTS == 2
MAX_RETRIES == 3
\* the literal of "if i % 25 == 0"
CHECKPOINT_EVERY == 25

\* ------------------------------------------------------------------ inputs

\* A line of the URL file: 0 is a blank line, n > 0 the URL
\* https://.../location/<n>.html.
BLANK == 0

RECURSIVE UpTo(_)
UpTo(n) == IF n = 0 THEN <<>> ELSE Append(UpTo(n - 1), n)

LongFile == UpTo(NumLong)

\* The short input files: distinct URLs, a repeated URL, a blank line.
ShortFiles == { <<1, 2>>, <<1, BLANK, 1>> }

NoFile == [exists |-> FALSE]

Range(s) == { s[k] : k \in 1..Len(s) }

\* ------------------------------------------------------- text, as characters

\* Python's "sub in s" on strings held as sequences of characters.
Contains(sub, s) ==
    \E k \in 0..(Len(s) - Len(sub)) : SubSeq(s, k + 1, k + Len(sub)) = sub

\* The lower case of a piece of text: of the letters that occur in titles, and
\* of the words that occur in box headings (every other piece has one spelling).
LowerChar(c) ==
    CASE c = "E" -> "e" [] c = "R" -> "r" [] c = "O" -> "o"
      [] c = "N" -> "n" [] c = "F" -> "f" [] c = "A" -> "a"
      [] c \in {"Security", "SECURITY"} -> "security"
      [] c \in {"Track", "TRACK"} -> "track"
      [] c \in {"Type", "TYPE"} -> "type"
      [] c \in {"Facility", "FACILITY"} -> "facility"
      [] c \in {"Capacity", "CAPACITY"} -> "capacity"
      [] c \in {"Commtrex", "COMMTREX"} -> "commtrex"
      [] OTHER -> c

\* str.lower()
Lower(s) == [k \in 1..Len(s) |-> LowerChar(s[k])]

T_Facility == <<"A", "c", "m", "e", " ", "|", " ", "C", "o">>
T_404 == <<"4", "0", "4", " ", "N", "o", "t", " ", "F", "o", "u", "n", "d">>
T_Error == <<"E", "r", "r", "o", "r">>
T_ERROR == <<"A", "N", " ", "E", "R", "R", "O", "R">>
U_50x == <<"/", "e", "r", "r", "o", "r", "/", "5", "0", "x">>
U_404 == <<"/", "e", "r", "r", "o", "r", "/", "4", "0", "4">>
U_Page == <<"/", "l", "o", "c", "a", "t", "i", "o", "n", "/", "7">>

\* ------------------------------------------------------ values and markup

\* Python and JSON values: a str (its text a sequence of pieces), None/null,
\* a dict/object; "absent" stands for a key an object does not have.
Str(x) == [t |-> "str", v |-> x]
EmptyStr == Str(<<>>)
PyNone == [t |-> "None"]
Absent == [t |-> "absent"]

\* dict.get(key, default), v being what the object has under the key
Get(v, default) == IF v.t = "absent" THEN default ELSE v

\* "not v" for a str or None
PyFalsy(v) == v.t = "None" \/ (v.t = "str" /\ v.v = <<>>)

\* m.get(k, default) on a mapping held as a function
Lookup(m, k, default) == IF k \in DOMAIN m THEN m[k] ELSE default

NoEntries == [k \in {} |-> <<>>]

\* s.split(c)[0]
RECURSIVE SplitFirst(_, _)
SplitFirst(s, c) ==
    IF s = <<>> \/ Head(s) = c THEN <<>> ELSE <<Head(s)>> \o SplitFirst(Tail(s), c)

\* What follows the first c in s (empty when there is none).
RECURSIVE AfterFirst(_, _)
AfterFirst(s, c) ==
    IF s = <<>> THEN <<>> ELSE IF Head(s) = c THEN Tail(s) ELSE AfterFirst(Tail(s), c)

RECURSIVE LStrip(_)
LStrip(s) == IF s # <<>> /\ Head(s) = " " THEN LStrip(Tail(s)) ELSE s

RECURSIVE RStrip(_)
RStrip(s) == IF s # <<>> /\ s[Len(s)] = " " THEN RStrip(SubSeq(s, 1, Len(s) - 1)) ELSE s

\* str.strip()
Strip(s) == RStrip(LStrip(s))

\* s.replace(sub, "")
RECURSIVE Remove(_, _)
Remove(s, sub) ==
    IF Len(s) < Len(sub) \/ sub = <<>> THEN s
    ELSE IF SubSeq(s, 1, Len(sub)) = sub
         THEN Remove(SubSeq(s, Len(sub) + 1, Len(s)), sub)
         ELSE <<Head(s)>> \o Remove(Tail(s), sub)

\* sep.join(values), each value a text
RECURSIVE JoinWith(_, _)
JoinWith(values, sep) ==
    IF values = <<>> THEN <<>>
    ELSE IF Len(values) = 1 THEN values[1]
    ELSE values[1] \o <<sep>> \o JoinWith(Tail(values), sep)

\* A join with a bare comma.
JoinComma(values) == JoinWith(values, ",")

\* "; ".join(values)
Join(values) == JoinWith(values, "; ")

\* The JSON-LD LocalBusiness object of the sample facility page.
AcmeAddress ==
    [t |-> "dict",
     streetAddress |-> Str(<<"1 Rail Rd">>), addressLocality |-> Str(<<"Houston">>),
     addressRegion |-> Str(<<"TX">>), postalCode |-> Str(<<"77001">>),
     addressCountry |-> Str(<<"US">>)]

AcmeBiz ==
    [type |-> "LocalBusiness", name |-> Str(<<"Acme Transload">>),
     telephone |-> Str(<<"555-0100">>), description |-> Str(<<"Transload yard">>),
     address |-> AcmeAddress]

\* An object with none of the keys the extractor reads.
BareAddress ==
    [t |-> "dict", streetAddress |-> Absent, addressLocality |-> Absent,
     addressRegion |-> Absent, postalCode |-> Absent, addressCountry |-> Absent]

BareBiz ==
    [type |-> "LocalBusiness", name |-> Absent, telephone |-> Absent,
     description |-> Absent, address |-> Absent]

\* ---------------------------------------------------------- the solver's answers

NoneSol == [kind |-> "None"]
EmptySol == [kind |-> "empty"]

\* "facility" before parse_facility has been called, and after it returned None.
NoFacility == [kind |-> "None"]

Solved(html, final) == [kind |-> "dict", response |-> html, url |-> final]

\* A page: its title, the shape of its JSON-LD script ("none", "invalid",
\* "object", "array") and, for an object, its content; the details boxes in
\* document order, each with the texts of its child divs; the label/value rows of
\* "Additional Services" and of the hours; the "About" paragraph; for a
\* railcar storage page the name element and the rows of "Storage Facility
\* Information".
Page(title, ld) ==
    [title |-> title, ld |-> ld,
     biz |-> IF ld = "object" THEN AcmeBiz ELSE BareBiz,
     boxes |-> <<>>, additional |-> NoEntries, hours |-> NoEntries,
     about |-> <<>>, storage_name |-> <<>>, info |-> NoEntries]

\* The solutions the solving service can hand back for a request (the last
\* two: an empty object, JSON null).
Solutions ==
    { Solved(Page(T_Facility, "object"), U_Page),
      Solved(Page(T_404, "object"), U_Page),
      Solved(Page(T_Error, "none"), U_Page),
      Solved(Page(T_Facility, "array"), U_Page),
      Solved(Page(T_Facility, "object"), U_50x),
      Solved(Page(T_404, "none"), U_404),
      EmptySol, NoneSol }

\* What one requests.post + r.json() can give: a transport timeout, any other
\* exception, a status other than "ok", "ok" without a "solution" key, or "ok"
\* with a solution.
Responses ==
    { [status |-> s] : s \in {"timeout", "exception", "error", "ok_no_solution"} }
    \cup { [status |-> "ok", solution |-> s] : s \in Solutions }

CleanResponse == [status |-> "ok", solution |-> Solved(Page(T_Facility, "object"), U_Page)]

\* ------------------------------------------------------------------- state

\* scrape_with_scrapingbee before it is called: its position, whether
\* SCRAPINGBEE_API_KEY is set, its parameters url and retries, its loop variable, its
\* local "response", and what the call has done and returned (requests.get
\* calls made, sleeps, the return value).
BeeIdle ==
    [pc |-> "idle", key |-> FALSE, url |-> "", retries |-> 0, attempt |-> 0,
     response |-> [kind |-> "unbound"],
     requests |-> 0, slept |-> <<>>, result |-> PyNone]

VARIABLES
    \* disk
    urlsFile,       \* NoFile or [exists, lines]
    progressFile,   \* NoFile or the JSON object save_progress wrote
    csvDisk,        \* NoFile or [exists, rows]: what is durably in the table
    \* the process
    pc,
    crawler,        \* which of the two scrapers runs: "facility", "railcar"
    resume, limit,  \* args.resume, args.limit
    pending, i,     \* the queue and enumerate's counter
    completed, failed, success_count, fail_count,
    session_id,
    facility,       \* main's local: what the extractor returned
    csvBuf,         \* rows handed to the writer and not yet flushed
    attempt, sol,   \* flaresolverr_get's loop variable; its return value
    exc,            \* the exception in flight: "none", "KeyboardInterrupt", "Error"
    \* observations
    runs,           \* runs started so far
    loaded,         \* the completed set this run loaded from the checkpoint
    fetched,        \* URLs passed to flaresolverr_get in this run, in order
    posts,          \* request.get posts made by the current flaresolverr_get call
    sleeps,         \* backoff sleeps of the current flaresolverr_get call
    saves,          \* checkpoint writes of this run
    parsed,         \* URLs whose markup was handed to the extractor in this run
    creates, destroys,  \* sessions.create / sessions.destroy requests of this run
    faults,         \* abnormal events of this run (see MaxLongFaults)
    signal,         \* where the interrupt arrived: "none", "in_fetch", "elsewhere"
    fails,          \* attempts of the current flaresolverr_get call that failed
    rows0,          \* rows in the table when this run opened it
    rests,          \* sleeps made since this run's last request.post
    \* the count-verification utility
    bee             \* the frame of scrape_with_scrapingbee (see BeeIdle)

disk == <<urlsFile, progressFile, csvDisk>>
proc == <<pc, crawler, resume, limit, pending, i, completed, failed, success_count,
          fail_count, session_id, facility, csvBuf, attempt, sol, exc>>
obs == <<runs, loaded, fetched, posts, sleeps, saves, parsed, creates, destroys, faults,
         signal, fails, rows0, rests>>
vars == <<disk, proc, obs, bee>>

HEADER == 0

IsLong == urlsFile.exists /\ Len(urlsFile.lines) > 3

RunBudget == IF IsLong THEN 1 ELSE MaxRuns

MayFault == ~IsLong \/ faults < MaxLongFaults

Faulted == IF IsLong THEN faults + 1 ELSE faults

Init ==
    /\ urlsFile \in { [exists |-> TRUE, lines |-> f] : f \in ShortFiles \cup {LongFile} }
                    \cup {NoFile}
    /\ progressFile = NoFile
    /\ csvDisk = NoFile
    /\ pc = "idle"
    /\ crawler = "facility"
    /\ resume = FALSE /\ limit = 0
    /\ pending = <<>> /\ i = 0
    /\ completed = {} /\ failed = <<>>
    /\ success_count = 0 /\ fail_count = 0
    /\ session_id = "" /\ facility = NoFacility
    /\ csvBuf = <<>>
    /\ attempt = 0 /\ sol = NoneSol
    /\ exc = "none"
    /\ runs = 0
    /\ loaded = {}
    /\ fetched = <<>> /\ posts = 0 /\ sleeps = <<>>
    /\ saves = 0 /\ parsed = <<>>
    /\ creates = 0 /\ destroys = 0
    /\ faults = 0
    /\ signal = "none" /\ fails = 0 /\ rows0 = 0
    /\ rests = <<>>
    /\ bee = BeeIdle

\* ------------------------------------------------------ pure parts of main()

\* urls = [line.strip() for line in ... if line.strip()]
ReadUrls(lines) == SelectSeq(lines, LAMBDA l : l # BLANK)

\* load_progress(): the checkpoint's completed set, empty when there is no file.
load_progress(file) == IF file.exists THEN file.completed ELSE {}

\* A start-up that loads the checkpoint whatever the flags.
LoadsAlways(r, file) == load_progress(file)

\* completed = load_progress() if args.resume else set()
InitialCompleted(r, file) == IF r THEN load_progress(file) ELSE {}

\* failed = []
InitialFailed(r, file) == <<>>

\* A save that writes only what this run completed, dropping what it loaded.
save_only_new(c, f) ==
    [exists |-> TRUE, completed |-> c \ loaded, failed |-> f,
     total_completed |-> Cardinality(c \ loaded), total_failed |-> Len(f)]

\* The object save_progress() dumps (last_updated left out).
save_progress(c, f) ==
    [exists |-> TRUE, completed |-> c, failed |-> f,
     total_completed |-> Cardinality(c), total_failed |-> Len(f)]

\* A queue that is not filtered by the completed set.
FilterPendingKeepsAll(urls, c) == urls

\* pending = [u for u in urls if u not in completed]
FilterPending(urls, c) == SelectSeq(urls, LAMBDA u : u \notin c)

\* A queue that --limit does not cap.
NoLimit(p, lim) == p

\* if args.limit: pending = pending[:args.limit]
ApplyLimit(p, lim) ==
    IF lim # 0 THEN SubSeq(p, 1, IF lim < Len(p) THEN lim ELSE Len(p)) ELSE p

BuildQueue(urls, c, lim) == ApplyLimit(FilterPending(urls, c), lim)

\* A run that writes the header whatever the mode.
WriteHeaderAlways(table, r) == TRUE

\* write_header = not output_path.exists() or not args.resume
WriteHeader(table, r) == ~table.exists \/ ~r

\* open(output_path, "a" if args.resume else "w")
OpenTable(table, r) ==
    IF r /\ table.exists THEN table ELSE [exists |-> TRUE, rows |-> <<>>]

\* A start-up that opens the table before it looks for the URL list.
StartupTableOpensFirst(table, r, missing) == OpenTable(table, r)

\* The table after main()'s start-up: the check for the URL list, with its
\* sys.exit(1), comes before the table is opened.
StartupTable(table, r, missing) == IF missing THEN table ELSE OpenTable(table, r)

\* ------------------------------------------------------- flaresolverr_get()

\* A fetcher that never returns from inside its loop.
ReturnsNever(r) == FALSE

\* An attempt returns data["solution"] when data.get("status") == "ok"; a
\* timeout, any other exception (a missing "solution" key among them) and any
\* other status fall through to the backoff.
Returns(r) == r.status = "ok"

\* A backoff that also sleeps after the last attempt.
SleepsAfterEvery(a) == TRUE

\* if attempt < MAX_RETRIES: time.sleep(...)
SleepsAfter(a) == a < MAX_RETRIES

\* time.sleep(DELAY_BETWEEN_REQUESTS * attempt)
BackoffDelay(a) == DELAY_BETWEEN_REQUESTS * a

\* A retry loop without an upper end.
NeverLastAttempt(a) == FALSE

\* for attempt in range(1, MAX_RETRIES + 1)
LastAttempt(a) == a >= MAX_RETRIES

\* ------------------------------------------------------ outcome classification

\* "if not sol": None and the empty dict are both falsy.
Falsy(s) == s.kind \in {"None", "empty"}

\* A redirect check that knows only the 50x page.
IsErrorRedirect50xOnly(final) == Contains(SubSeq(U_50x, 2, 10), final)

\* "error/50x" in final_url or "error/404" in final_url
IsErrorRedirect(final) ==
    Contains(SubSeq(U_50x, 2, 10), final) \/ Contains(SubSeq(U_404, 2, 10), final)

\* The title guard of parse_facility:
\* "50x" in title or "error" in title.lower() or "404" in title
TitleRejected(title) ==
    \/ Contains(<<"5", "0", "x">>, title)
    \/ Contains(<<"e", "r", "r", "o", "r">>, Lower(title))
    \/ Contains(<<"4", "0", "4">>, title)

\* ---------------------------------------------------------- the extractors

LdRead(html) == html.ld = "object" /\ html.biz.type = "LocalBusiness"

\* addr = ld.get("address", {})
LdAddress(html) == Get(html.biz.address, BareAddress)

\* What the JSON-LD loop lets through: ld.get on a decoded array, and addr.get
\* on an address that is null or a string, raise AttributeError, which the
\* loop's "except (json.JSONDecodeError, TypeError)" does not catch.  A script
\* that does not decode is skipped.
LdRaises(html) ==
    \/ html.ld = "array"
    \/ LdRead(html) /\ LdAddress(html).t # "dict"

\* ld.get(key, default) inside "if ld.get('@type') == 'LocalBusiness'"
LdField(html, v, default) == IF LdRead(html) THEN Get(v, default) ELSE default

\* name, with the fallback "if not name and title: title.split('|')[0].strip()"
FacilityName(html) ==
    LET name == LdField(html, html.biz.name, EmptyStr)
    IN  IF PyFalsy(name) /\ html.title # <<>>
        THEN Str(Strip(SplitFirst(html.title, "|")))
        ELSE name

\* The text of a URL of the list.  URL n is https://host/location/n.html, but
\* for two: one without the /location/<digits>.html pattern, and one in which
\* a /location/ that no digits follow comes before two whole patterns.
U_NoPattern == 8
U_TwoPatterns == 9

UrlText(u) ==
    CASE u = U_NoPattern -> <<"https://host", "/about/", "8", ".html">>
      [] u = U_TwoPatterns -> <<"https://host", "/location/", "x", ".html", "?from=",
                                "/location/", "9", ".html", "/location/", "12", ".html">>
      [] OTHER -> <<"https://host", "/location/", ToString(u), ".html">>

\* \d+
IsDigits(piece) == piece \in { ToString(n) : n \in 0..99 }

\* Where r"/location/(\d+)\.html" matches in a text.
MatchesAt(s) ==
    { k \in 1..(Len(s) - 2) :
        s[k] = "/location/" /\ IsDigits(s[k + 1]) /\ s[k + 2] = ".html" }

\* An id taken from the last match.
FacIdLast(u) ==
    LET s == UrlText(u)
        M == MatchesAt(s)
    IN  IF M = {} THEN EmptyStr
        ELSE Str(<<s[(CHOOSE k \in M : \A j \in M : j <= k) + 1]>>)

\* m = re.search(r"/location/(\d+)\.html", url); fac_id = m.group(1) if m else ""
FacId(u) ==
    LET s == UrlText(u)
        M == MatchesAt(s)
    IN  IF M = {} THEN EmptyStr
        ELSE Str(<<s[(CHOOSE k \in M : \A j \in M : k <= j) + 1]>>)

\* A child div's text with a trailing "See more" / "See less" removed:
\* re.sub(r"See (?:more|less)$", "", t).strip()
StripSee(t) ==
    IF t # <<>> /\ t[Len(t)] \in {"See more", "See less"}
    THEN Strip(SubSeq(t, 1, Len(t) - 1)) ELSE Strip(t)

\* The values loop of get_box_values: empty texts and bare toggles are skipped.
RECURSIVE CleanValues(_)
CleanValues(children) ==
    IF children = <<>> THEN <<>>
    ELSE LET t == Strip(Head(children))
             keep == /\ t # <<>>
                     /\ t \notin {<<"See more">>, <<"See less">>, <<"see more">>, <<"see less">>}
                     /\ StripSee(t) # <<>>
         IN  (IF keep THEN <<StripSee(t)>> ELSE <<>>) \o CleanValues(Tail(children))

\* A div.details-box: its div.title, when it has one, and the texts of the
\* divs that follow the title.
Box(title, children) == [titled |-> TRUE, title |-> title, children |-> children]
UntitledBox(children) == [titled |-> FALSE, title |-> <<>>, children |-> children]

\* The loop of get_box_values over the boxes in document order: the first box
\* with a title that holds the heading, both in lower case, gives the values.
RECURSIVE BoxValues(_, _)
BoxValues(boxes, heading) ==
    IF boxes = <<>> THEN <<>>
    ELSE IF /\ Head(boxes).titled
            /\ Contains(Lower(heading), Lower(Strip(Head(boxes).title)))
         THEN CleanValues(Head(boxes).children)
         ELSE BoxValues(Tail(boxes), heading)

\* The loop of a lookup that goes on to the next box when a matching box
\* holds no values.
RECURSIVE BoxValuesNonEmpty(_, _)
BoxValuesNonEmpty(boxes, heading) ==
    IF boxes = <<>> THEN <<>>
    ELSE IF /\ Head(boxes).titled
            /\ Contains(Lower(heading), Lower(Strip(Head(boxes).title)))
            /\ CleanValues(Head(boxes).children) # <<>>
         THEN CleanValues(Head(boxes).children)
         ELSE BoxValuesNonEmpty(Tail(boxes), heading)

\* A lookup that skips matching boxes without values.
get_box_values_non_empty(html, heading) == BoxValuesNonEmpty(html.boxes, heading)

\* get_box_values(heading_text): the values of the box under that heading.
get_box_values(html, heading) == BoxValues(html.boxes, heading)

\* vals[0] if vals else ""
FirstValue(vals) == IF vals # <<>> THEN Str(vals[1]) ELSE EmptyStr

\* datetime.utcnow().isoformat()
ScrapedAt == Str(<<"utcnow">>)

\* CSV_FIELDS of the facility scraper, as a set of keys.
CSV_FIELDS ==
    { "id", "name", "street_address", "city", "state", "zip_code", "country",
      "phone", "description", "product_types", "hazmat_handling",
      "transfer_modes", "railroads", "track_capacity", "security_features",
      "equipment", "cities_served", "storage_options", "heating_capabilities",
      "kosher_certification", "onsite_railcar_storage", "onsite_scale",
      "weight_restricted_263k", "weight_restricted_286k",
      "hours_mon", "hours_tue", "hours_wed", "hours_thu",
      "hours_fri", "hours_sat", "hours_sun",
      "about", "url", "scraped_at" }

\* CSV_FIELDS of the railcar storage scraper.
StorageCsvFields ==
    { "id", "name", "location", "city", "state",
      "interchange_railroads", "capacity", "hazmat_suited",
      "rail_services", "facility_types", "track_types",
      "about", "url", "scraped_at" }

\* The dict parse_facility returns.
FacilityFields(html, u) ==
    [id |-> FacId(u),
     name |-> FacilityName(html),
     street_address |-> LdField(html, LdAddress(html).streetAddress, EmptyStr),
     city |-> LdField(html, LdAddress(html).addressLocality, EmptyStr),
     state |-> LdField(html, LdAddress(html).addressRegion, EmptyStr),
     zip_code |-> LdField(html, LdAddress(html).postalCode, EmptyStr),
     country |-> LdField(html, LdAddress(html).addressCountry, Str(<<"US">>)),
     phone |-> LdField(html, html.biz.telephone, EmptyStr),
     description |-> LdField(html, html.biz.description, EmptyStr),
     product_types |-> Str(Join(get_box_values(html, <<"Product Types Handled">>))),
     hazmat_handling |-> FirstValue(get_box_values(html, <<"Hazardous Material Handling">>)),
     transfer_modes |-> Str(Join(get_box_values(html, <<"Transfer Modes">>))),
     railroads |-> Str(Join(get_box_values(html, <<"Serving Class I Railroads">>))),
     track_capacity |-> FirstValue(get_box_values(html, <<"Track", " ", "Capacity">>)),
     security_features |-> Str(Join(get_box_values(html, <<"Security">>))),
     equipment |-> Str(Join(get_box_values(html, <<"Transload Equipment">>))),
     cities_served |-> Str(Join(get_box_values(html, <<"Cities Served">>))),
     storage_options |-> Str(Lookup(html.additional, "Product Storage Options", <<>>)),
     heating_capabilities |-> Str(Lookup(html.additional, "Heating Capabilities", <<>>)),
     kosher_certification |-> Str(Lookup(html.additional, "Kosher Certification", <<>>)),
     onsite_railcar_storage |-> Str(Lookup(html.additional, "Onsite Railcar Storage", <<>>)),
     onsite_scale |-> Str(Lookup(html.additional, "Onsite Scale", <<>>)),
     weight_restricted_263k |-> Str(Lookup(html.additional, "Weight Restricted 263k", <<>>)),
     weight_restricted_286k |-> Str(Lookup(html.additional, "Weight Restricted 286k", <<>>)),
     hours_mon |-> Str(Lookup(html.hours, "monday", <<>>)),
     hours_tue |-> Str(Lookup(html.hours, "tuesday", <<>>)),
     hours_wed |-> Str(Lookup(html.hours, "wednesday", <<>>)),
     hours_thu |-> Str(Lookup(html.hours, "thursday", <<>>)),
     hours_fri |-> Str(Lookup(html.hours, "friday", <<>>)),
     hours_sat |-> Str(Lookup(html.hours, "saturday", <<>>)),
     hours_sun |-> Str(Lookup(html.hours, "sunday", <<>>)),
     about |-> Str(html.about),
     url |-> Str(UrlText(u)),
     scraped_at |-> ScrapedAt]

\* parse_facility(html, url): None on the title guard; an AttributeError out
\* of the JSON-LD loop; the record otherwise.
parse_facility(html, u) ==
    IF TitleRejected(html.title) THEN [kind |-> "None"]
    ELSE IF LdRaises(html) THEN [kind |-> "raise"]
    ELSE [kind |-> "record", url |-> u, fields |-> FacilityFields(html, u)]

\* A railcar storage guard that also rejects "error" titles, as the guard
\* of parse_facility does.
TitleRejectedAlsoError(title) == TitleRejected(title)

\* A title guard that knows only the 50x page.
TitleRejected50xOnly(title) == Contains(<<"5", "0", "x">>, title)

\* The title guard of parse_railcar_storage: "50x" in title or "404" in title
TitleRejectedRailcar(title) ==
    \/ Contains(<<"5", "0", "x">>, title)
    \/ Contains(<<"4", "0", "4">>, title)

\* re.sub(r"\s*Railcar Storage Facility\s*$", "", name).strip()
DropSuffix(s) ==
    LET r == RStrip(s)
    IN  IF r # <<>> /\ r[Len(r)] = "Railcar Storage Facility"
        THEN Strip(SubSeq(r, 1, Len(r) - 1)) ELSE Strip(s)

\* The name of a railcar storage page, with its fallback to the title.
StorageName(html) ==
    LET name == DropSuffix(html.storage_name)
    IN  IF name = <<>> /\ html.title # <<>>
        THEN Strip(Remove(Strip(SplitFirst(html.title, "|")),
                          <<" ", "Railcar Storage Facility">>))
        ELSE name

\* location = info.get("Location", "")
StorageLocation(html) == Lookup(html.info, "Location", <<>>)

\* city, state: parts[0] and parts[1] of location.split(","), stripped, when
\* the location has a comma.
StorageCity(html) ==
    IF "," \in Range(StorageLocation(html))
    THEN Strip(SplitFirst(StorageLocation(html), ",")) ELSE <<>>

StorageState(html) ==
    IF "," \in Range(StorageLocation(html))
    THEN Strip(SplitFirst(AfterFirst(StorageLocation(html), ","), ",")) ELSE <<>>

\* The dict parse_railcar_storage returns.
StorageFields(html, u) ==
    [id |-> FacId(u),
     name |-> Str(StorageName(html)),
     location |-> Str(StorageLocation(html)),
     city |-> Str(StorageCity(html)),
     state |-> Str(StorageState(html)),
     interchange_railroads |-> Str(Lookup(html.info, "Interchange", <<>>)),
     capacity |-> Str(Lookup(html.info, "Capacity", <<>>)),
     hazmat_suited |-> Str(Lookup(html.info, "Suited for HazMat", <<>>)),
     rail_services |-> Str(Join(get_box_values(html, <<"Rail Services Offered">>))),
     facility_types |-> Str(Join(get_box_values(html, <<"Facility", " ", "Type">>))),
     track_types |-> Str(Join(get_box_values(html, <<"Track", " ", "Type">>))),
     about |-> Str(html.about),
     url |-> Str(UrlText(u)),
     scraped_at |-> ScrapedAt]

\* parse_railcar_storage(html, url)
parse_railcar_storage(html, u) ==
    IF TitleRejectedRailcar(html.title) THEN [kind |-> "None"]
    ELSE [kind |-> "record", url |-> u, fields |-> StorageFields(html, u)]

\* The extractor of the crawler that is running.
Extract(html, u) ==
    IF crawler = "railcar" THEN parse_railcar_storage(html, u) ELSE parse_facility(html, u)

\* ------------------------------------------------------------ the run

LoopPcs == {"top", "attempt", "backoff", "classify", "flush", "mark", "periodic", "sleep"}
FinallyPcs == {"finally_close", "finally_save", "finally_destroy"}
EndPcs == {"idle", "done", "crashed", "killed", "exited"}

url == pending[i]

\* main() up to the try block: read the URL list, load the checkpoint, build
\* the queue, open the table, create the session.
StartRun(r, l, sid) ==
    /\ pc \in EndPcs
    /\ runs < RunBudget
    /\ IsLong => ~r
    /\ runs' = runs + 1
    /\ resume' = r /\ limit' = l
    /\ i' = 0 /\ failed' = InitialFailed(r, progressFile)
    /\ success_count' = 0 /\ fail_count' = 0
    /\ attempt' = 0 /\ sol' = NoneSol /\ exc' = "none"
    /\ fetched' = <<>> /\ posts' = 0 /\ sleeps' = <<>>
    /\ saves' = 0 /\ parsed' = <<>> /\ destroys' = 0
    /\ signal' = "none" /\ fails' = 0 /\ rests' = <<>>
    /\ facility' = NoFacility
    /\ UNCHANGED <<urlsFile, progressFile, crawler, bee>>
    /\ IF ~urlsFile.exists
       THEN \* log.error(...); sys.exit(1)
            /\ pc' = "exited"
            /\ completed' = {} /\ loaded' = {} /\ pending' = <<>>
            /\ session_id' = "" /\ creates' = 0 /\ csvBuf' = <<>>
            /\ faults' = 0 /\ rows0' = 0
            /\ csvDisk' = StartupTable(csvDisk, r, TRUE)
       ELSE /\ completed' = InitialCompleted(r, progressFile)
            /\ loaded' = completed'
            /\ pending' = BuildQueue(ReadUrls(urlsFile.lines), completed', l)
            /\ csvDisk' = StartupTable(csvDisk, r, FALSE)
            /\ rows0' = Len(csvDisk'.rows)
            /\ csvBuf' = (IF WriteHeader(csvDisk, r) THEN <<HEADER>> ELSE <<>>)
            /\ session_id' = sid /\ creates' = 1
            /\ sid = "" => ~IsLong \/ MaxLongFaults > 0
            /\ faults' = (IF IsLong /\ sid = "" THEN 1 ELSE 0)
            /\ pc' = "top"

\* for i, url in enumerate(pending, 1): ... sol = flaresolverr_get(url, session_id)
BeginIteration ==
    /\ pc = "top" /\ i < Len(pending)
    /\ i' = i + 1
    /\ fetched' = Append(fetched, pending[i + 1])
    /\ attempt' = 1 /\ posts' = 0 /\ sleeps' = <<>> /\ sol' = NoneSol /\ fails' = 0
    /\ pc' = "attempt"
    /\ UNCHANGED <<disk, crawler, bee, resume, limit, pending, completed, failed, success_count,
                   fail_count, session_id, facility, csvBuf, exc, runs, loaded, saves, parsed,
                   creates, destroys, faults, signal, rows0, rests>>

\* One pass of flaresolverr_get's loop body up to the backoff: the post, then
\* either the return of data["solution"], or the sleep when one is due, or the
\* end of the loop (return None after the last attempt).
Attempt(r) ==
    /\ pc = "attempt"
    /\ r = CleanResponse \/ attempt > 1 \/ MayFault
    /\ faults' = (IF attempt = 1 /\ r # CleanResponse THEN Faulted ELSE faults)
    /\ posts' = posts + 1 /\ rests' = <<>>
    /\ fails' = (IF Returns(r) THEN fails ELSE fails + 1)
    /\ IF Returns(r)
       THEN sol' = r.solution /\ pc' = "classify"
       ELSE IF SleepsAfter(attempt)
            THEN sol' = sol /\ pc' = "backoff"
            ELSE IF LastAttempt(attempt)
                 THEN sol' = NoneSol /\ pc' = "classify"
                 ELSE sol' = sol /\ pc' = "attempt"
    /\ attempt' = (IF ~Returns(r) /\ ~SleepsAfter(attempt) /\ ~LastAttempt(attempt)
                   THEN attempt + 1 ELSE attempt)
    /\ UNCHANGED <<disk, crawler, bee, resume, limit, pending, i, completed, failed, success_count,
                   fail_count, session_id, facility, csvBuf, exc, runs, loaded, fetched,
                   sleeps, saves, parsed, creates, destroys, signal, rows0>>

\* time.sleep(DELAY_BETWEEN_REQUESTS * attempt), then the next attempt.
Backoff ==
    /\ pc = "backoff"
    /\ sleeps' = Append(sleeps, BackoffDelay(attempt))
    /\ rests' = Append(rests, [kind |-> "backoff", secs |-> BackoffDelay(attempt)])
    /\ IF LastAttempt(attempt)
       THEN sol' = NoneSol /\ pc' = "classify" /\ attempt' = attempt
       ELSE sol' = sol /\ pc' = "attempt" /\ attempt' = attempt + 1
    /\ UNCHANGED <<disk, crawler, bee, resume, limit, pending, i, completed, failed, success_count,
                   fail_count, session_id, facility, csvBuf, exc, runs, loaded, fetched,
                   posts, saves, parsed, creates, destroys, faults, signal, fails, rows0>>

\* final_url = sol.get("url", url)
FinalUrl(s) == s.url

\* The failed entries main() appends.
SolverFailed(u) == [url |-> u, error |-> "flaresolverr_failed"]
ServerError(u, final) == [url |-> u, error |-> "server_error", redirect |-> final]
ParseFailed(u) == [url |-> u, error |-> "parse_failed"]

\* A loop that marks every processed URL completed.
MarksEveryOutcome(outcome) == TRUE

\* Whether main() adds the URL to completed for an outcome of its iteration.
MarksCompleted(outcome) == outcome \in {"server_error", "ok"}

\* A loop that adds nothing to completed.
MarkNothing(c, u, outcome) == c

\* completed.add(url), where main() does it.
Mark(c, u, outcome) == IF MarksCompleted(outcome) THEN c \cup {u} ELSE c

\* A loop that leaves its counters where they are.
NotCounted(n) == n

\* success_count += 1, fail_count += 1
Counted(n) == n + 1

\* "if not sol:" branch: count, record, sleep, continue.
HandleNoSolution ==
    /\ pc = "classify" /\ Falsy(sol)
    /\ fail_count' = Counted(fail_count)
    /\ failed' = Append(failed, SolverFailed(url))
    /\ completed' = Mark(completed, url, "flaresolverr_failed")
    /\ posts' = 0 /\ sleeps' = <<>> /\ sol' = NoneSol /\ attempt' = 0 /\ fails' = 0
    /\ pc' = "sleep"
    /\ UNCHANGED <<disk, crawler, bee, resume, limit, pending, i, success_count, session_id, facility, csvBuf,
                   exc, runs, loaded, fetched, saves, parsed, creates, destroys, faults, signal, rows0, rests>>

\* The error-redirect branch: count, record with the redirect target, mark
\* completed, sleep, continue.
HandleServerError ==
    /\ pc = "classify" /\ ~Falsy(sol) /\ IsErrorRedirect(FinalUrl(sol))
    /\ fail_count' = Counted(fail_count)
    /\ failed' = Append(failed, ServerError(url, FinalUrl(sol)))
    /\ completed' = Mark(completed, url, "server_error")
    /\ posts' = 0 /\ sleeps' = <<>> /\ sol' = NoneSol /\ attempt' = 0 /\ fails' = 0
    /\ pc' = "sleep"
    /\ UNCHANGED <<disk, crawler, bee, resume, limit, pending, i, success_count, session_id, facility, csvBuf,
                   exc, runs, loaded, fetched, saves, parsed, creates, destroys, faults, signal, rows0, rests>>

Extracts == pc = "classify" /\ ~Falsy(sol) /\ ~IsErrorRedirect(FinalUrl(sol))

\* facility = parse_facility(html, url); writer.writerow(facility)
ExtractAndWrite ==
    /\ Extracts
    /\ Extract(sol.response, url).kind = "record"
    /\ facility' = Extract(sol.response, url)
    /\ parsed' = Append(parsed, url)
    /\ csvBuf' = Append(csvBuf, facility'.url)
    /\ posts' = 0 /\ sleeps' = <<>> /\ sol' = NoneSol /\ attempt' = 0 /\ fails' = 0
    /\ pc' = "flush"
    /\ UNCHANGED <<disk, crawler, bee, resume, limit, pending, i, completed, failed, success_count,
                   fail_count, session_id, exc, runs, loaded, fetched, saves,
                   creates, destroys, faults, signal, rows0, rests>>

\* parse_facility returned None: count and record parse_failed.
ExtractRejected ==
    /\ Extracts
    /\ Extract(sol.response, url).kind = "None"
    /\ facility' = NoFacility
    /\ parsed' = Append(parsed, url)
    /\ fail_count' = Counted(fail_count)
    /\ failed' = Append(failed, ParseFailed(url))
    /\ completed' = Mark(completed, url, "parse_failed")
    /\ posts' = 0 /\ sleeps' = <<>> /\ sol' = NoneSol /\ attempt' = 0 /\ fails' = 0
    /\ pc' = "periodic"
    /\ UNCHANGED <<disk, crawler, bee, resume, limit, pending, i, success_count, session_id, csvBuf,
                   exc, runs, loaded, fetched, saves, creates, destroys, faults, signal, rows0, rests>>

\* parse_facility raised: nothing in the loop catches it, the finally block runs.
ExtractRaises ==
    /\ Extracts
    /\ Extract(sol.response, url).kind = "raise"
    /\ parsed' = Append(parsed, url)
    /\ exc' = "Error"
    /\ posts' = 0 /\ sleeps' = <<>> /\ sol' = NoneSol /\ attempt' = 0 /\ fails' = 0
    /\ pc' = "finally_close"
    /\ UNCHANGED <<disk, crawler, bee, resume, limit, pending, i, completed, failed, success_count,
                   fail_count, session_id, facility, csvBuf, runs, loaded, fetched, saves,
                   creates, destroys, faults, signal, rows0, rests>>

FlushTable(table, buf) == [table EXCEPT !.rows = table.rows \o buf]

\* csv_file.flush()
Flush ==
    /\ pc = "flush"
    /\ csvDisk' = FlushTable(csvDisk, csvBuf)
    /\ csvBuf' = <<>>
    /\ pc' = "mark"
    /\ UNCHANGED <<urlsFile, progressFile, crawler, bee, resume, limit, pending, i, completed, failed,
                   success_count, fail_count, session_id, facility, attempt, sol, exc, obs>>

\* success_count += 1; completed.add(url); log.info(... facility["name"] ...),
\* the last use of the record.
MarkSuccess ==
    /\ pc = "mark"
    /\ success_count' = Counted(success_count)
    /\ completed' = Mark(completed, url, "ok")
    /\ facility' = NoFacility
    /\ pc' = "periodic"
    /\ UNCHANGED <<disk, crawler, bee, resume, limit, pending, i, failed, fail_count, session_id,
                   csvBuf, attempt, sol, exc, obs>>

\* if i % 25 == 0
CheckpointDue(n) == n % CHECKPOINT_EVERY = 0

\* The periodic save_progress(completed, failed); ok = FALSE is the write raising.
PeriodicSave(ok) ==
    /\ pc = "periodic" /\ CheckpointDue(i)
    /\ IF ok
       THEN /\ progressFile' = save_progress(completed, failed)
            /\ saves' = saves + 1
            /\ pc' = "sleep" /\ exc' = exc
            /\ faults' = faults
       ELSE /\ MayFault /\ faults' = Faulted
            /\ exc' = "Error" /\ pc' = "finally_close"
            /\ UNCHANGED <<progressFile, saves>>
    /\ UNCHANGED <<urlsFile, csvDisk, crawler, bee, resume, limit, pending, i, completed, failed,
                   success_count, fail_count, session_id, facility, csvBuf, attempt, sol,
                   runs, loaded, fetched, posts, sleeps, parsed, creates, destroys, signal, fails, rows0, rests>>

PeriodicSkip ==
    /\ pc = "periodic" /\ ~CheckpointDue(i)
    /\ pc' = "sleep"
    /\ UNCHANGED <<disk, crawler, bee, resume, limit, pending, i, completed, failed, success_count,
                   fail_count, session_id, facility, csvBuf, attempt, sol, exc, obs>>

\* --delay, at its default.
ArgsDelay == DELAY_BETWEEN_REQUESTS

\* A loop that goes on to the next URL without sleeping.
NoRest(rs, d) == rs

\* time.sleep(args.delay)
Rest(rs, d) == Append(rs, [kind |-> "rate", secs |-> d])

\* time.sleep(args.delay), at the end of the body or before a continue.
RateSleep ==
    /\ pc = "sleep"
    /\ rests' = Rest(rests, ArgsDelay)
    /\ pc' = "top"
    /\ UNCHANGED <<disk, crawler, bee, resume, limit, pending, i, completed, failed, success_count,
                   fail_count, session_id, facility, csvBuf, attempt, sol, exc, runs, loaded,
                   fetched, posts, sleeps, saves, parsed, creates, destroys, faults,
                   signal, fails, rows0>>

\* The for loop ends: the finally block runs.
LoopExhausted ==
    /\ pc = "top" /\ i = Len(pending)
    /\ pc' = "finally_close"
    /\ UNCHANGED <<disk, crawler, bee, resume, limit, pending, i, completed, failed, success_count,
                   fail_count, session_id, facility, csvBuf, attempt, sol, exc, obs>>

\* A fetcher whose handler also catches KeyboardInterrupt (a bare "except:"):
\* the interrupt becomes one more failed attempt.
InterruptCaughtByFetcher(p) ==
    IF p \in {"attempt", "backoff"} THEN "backoff" ELSE "finally_close"

\* Where a KeyboardInterrupt raised inside the try block goes: flaresolverr_get's
\* "except Exception" does not catch it, main's "except KeyboardInterrupt" does.
InterruptTarget(p) == "finally_close"

\* Ctrl-C anywhere inside the loop.  The locals of the abandoned
\* flaresolverr_get call are gone with its frame.
Interrupt ==
    /\ pc \in LoopPcs
    /\ MayFault /\ faults' = Faulted
    /\ signal' = (IF pc \in {"attempt", "backoff"} THEN "in_fetch" ELSE "elsewhere")
    /\ pc' = InterruptTarget(pc)
    /\ IF pc' = "finally_close"
       THEN /\ exc' = "KeyboardInterrupt"
            /\ attempt' = 0 /\ sol' = NoneSol /\ posts' = 0 /\ sleeps' = <<>>
            /\ fails' = 0 /\ rests' = <<>> /\ facility' = NoFacility
       ELSE UNCHANGED <<exc, attempt, sol, posts, sleeps, fails, rests, facility>>
    /\ UNCHANGED <<disk, crawler, bee, resume, limit, pending, i, completed, failed, success_count,
                   fail_count, session_id, csvBuf, runs, loaded, fetched, saves,
                   parsed, creates, destroys, rows0>>

\* finally: csv_file.close() writes the buffer out.
FinallyClose ==
    /\ pc = "finally_close"
    /\ csvDisk' = FlushTable(csvDisk, csvBuf)
    /\ csvBuf' = <<>>
    /\ pc' = "finally_save"
    /\ UNCHANGED <<urlsFile, progressFile, crawler, bee, resume, limit, pending, i, completed, failed,
                   success_count, fail_count, session_id, facility, attempt, sol, exc, obs>>

\* finally: save_progress(completed, failed); when it raises, the rest of the
\* finally block is skipped and the error leaves main().
FinallySave(ok) ==
    /\ pc = "finally_save"
    /\ IF ok
       THEN /\ progressFile' = save_progress(completed, failed)
            /\ saves' = saves + 1
            /\ pc' = "finally_destroy" /\ exc' = exc
            /\ faults' = faults
       ELSE /\ MayFault /\ faults' = Faulted
            /\ exc' = "Error" /\ pc' = "crashed"
            /\ UNCHANGED <<progressFile, saves>>
    /\ UNCHANGED <<urlsFile, csvDisk, crawler, bee, resume, limit, pending, i, completed, failed,
                   success_count, fail_count, session_id, facility, csvBuf, attempt, sol,
                   runs, loaded, fetched, posts, sleeps, parsed, creates, destroys, signal, fails, rows0, rests>>

\* finally: destroy_session(session_id); the request failing is swallowed.
\* A KeyboardInterrupt was caught, so main() goes on to its summary; any other
\* exception leaves main() after the finally block.
FinallyDestroy(ok) ==
    /\ pc = "finally_destroy"
    /\ destroys' = destroys + 1
    /\ pc' = (IF exc = "Error" THEN "crashed" ELSE "done")
    /\ UNCHANGED <<disk, crawler, bee, resume, limit, pending, i, completed, failed, success_count,
                   fail_count, session_id, facility, csvBuf, attempt, sol, exc, runs, loaded,
                   fetched, posts, sleeps, saves, parsed, creates, faults, signal, fails, rows0, rests>>

\* The process is killed outright: nothing of the finally block runs, and the
\* process's memory, the writer's unflushed buffer included, is lost.
Kill ==
    /\ pc \in LoopPcs \cup FinallyPcs
    /\ pc' = "killed"
    /\ csvBuf' = <<>>
    /\ pending' = <<>> /\ i' = 0 /\ completed' = {} /\ failed' = <<>>
    /\ success_count' = 0 /\ fail_count' = 0 /\ session_id' = "" /\ facility' = NoFacility
    /\ attempt' = 0 /\ sol' = NoneSol /\ exc' = "none"
    /\ loaded' = {} /\ fetched' = <<>> /\ posts' = 0 /\ sleeps' = <<>>
    /\ saves' = 0 /\ parsed' = <<>> /\ creates' = 0 /\ destroys' = 0
    /\ faults' = 0 /\ signal' = "none" /\ fails' = 0 /\ rows0' = 0 /\ rests' = <<>>
    /\ UNCHANGED <<disk, crawler, bee, resume, limit, runs>>

Next ==
    \/ \E r \in BOOLEAN, l \in 0..MaxLimit, sid \in {"sid", ""} : StartRun(r, l, sid)
    \/ BeginIteration
    \/ \E r \in Responses : Attempt(r)
    \/ Backoff
    \/ HandleNoSolution
    \/ HandleServerError
    \/ ExtractAndWrite
    \/ ExtractRejected
    \/ ExtractRaises
    \/ Flush
    \/ MarkSuccess
    \/ \E ok \in BOOLEAN : PeriodicSave(ok)
    \/ PeriodicSkip
    \/ RateSleep
    \/ LoopExhausted
    \/ Interrupt
    \/ FinallyClose
    \/ \E ok \in BOOLEAN : FinallySave(ok)
    \/ \E ok \in BOOLEAN : FinallyDestroy(ok)
    \/ Kill

Spec == Init /\ [][Next]_vars

\* ---------------------------------------------------- the three-URL scenario

\* A URL list of three URLs whose fetches have fixed fates: the first is
\* solved with a valid facility page, the second is solved but redirected to
\* an error page, every attempt for the third times out.
ScenarioFile == <<1, 2, 3>>

ScenarioResponses(u) ==
    CASE u = 1 -> { CleanResponse }
      [] u = 2 -> { [status |-> "ok", solution |-> Solved(Page(T_Facility, "object"), U_50x)],
                    [status |-> "ok", solution |-> Solved(Page(T_404, "none"), U_404)] }
      [] OTHER -> { [status |-> "timeout"] }

InitScenario ==
    /\ urlsFile = [exists |-> TRUE, lines |-> ScenarioFile]
    /\ progressFile = NoFile
    /\ csvDisk = NoFile
    /\ pc = "idle"
    /\ crawler = "facility"
    /\ resume = FALSE /\ limit = 0
    /\ pending = <<>> /\ i = 0
    /\ completed = {} /\ failed = <<>>
    /\ success_count = 0 /\ fail_count = 0
    /\ session_id = "" /\ facility = NoFacility
    /\ csvBuf = <<>>
    /\ attempt = 0 /\ sol = NoneSol
    /\ exc = "none"
    /\ runs = 0
    /\ loaded = {}
    /\ fetched = <<>> /\ posts = 0 /\ sleeps = <<>>
    /\ saves = 0 /\ parsed = <<>>
    /\ creates = 0 /\ destroys = 0
    /\ faults = 0
    /\ signal = "none" /\ fails = 0 /\ rows0 = 0
    /\ rests = <<>>
    /\ bee = BeeIdle

\* Runs of main() that nothing disturbs: no interrupt, no kill, no failing
\* checkpoint write.
NextScenario ==
    \/ \E r \in BOOLEAN, l \in 0..MaxLimit, sid \in {"sid", ""} : StartRun(r, l, sid)
    \/ BeginIteration
    \/ (pc = "attempt" /\ \E r \in ScenarioResponses(url) : Attempt(r))
    \/ Backoff
    \/ HandleNoSolution
    \/ HandleServerError
    \/ ExtractAndWrite
    \/ Flush
    \/ MarkSuccess
    \/ PeriodicSkip
    \/ RateSleep
    \/ LoopExhausted
    \/ FinallyClose
    \/ FinallySave(TRUE)
    \/ FinallyDestroy(TRUE)

SpecScenario == InitScenario /\ [][NextScenario]_vars

\* ------------------------------------------ the scenario, with interruptions

\* Runs on the three-URL list that can be interrupted or killed at any point.
NextAbrupt ==
    \/ NextScenario
    \/ Interrupt
    \/ Kill

SpecAbrupt == InitScenario /\ [][NextAbrupt]_vars

\* ------------------------------------------------- a URL list that goes away

\* Between two runs the URL list is deleted or moved away.
LoseUrlsFile ==
    /\ pc \in EndPcs /\ urlsFile.exists
    /\ urlsFile' = NoFile
    /\ UNCHANGED <<progressFile, csvDisk, proc, obs, bee>>

NextStartup ==
    \/ NextScenario
    \/ LoseUrlsFile

SpecStartup == InitScenario /\ [][NextStartup]_vars

\* ------------------------------------------------ the extractors on their own

T_50x == <<"5", "0", "x", " ", "E", "r", "r">>
T_Storage == <<"A", "c", "m", "e", " ", "Railcar Storage Facility", " ", "|", " ", "C", "o">>

\* A page with everything the extractors look for.
FullPage ==
    [Page(T_Facility, "object") EXCEPT
        !.boxes = << Box(<<"Product Types Handled">>,
                             << <<"Grain">>, <<"See more">>, <<"Coal", " ", "See less">>, <<" ">> >>),
                         Box(<<"Hazardous Material Handling">>, << <<"Yes">>, <<"Class 3">> >>),
                         Box(<<"Transfer Modes">>, << <<"Rail to truck">> >>),
                         Box(<<"Security">>, << <<"see less">> >>),
                         Box(<<"Rail Services Offered">>,
                             << <<"Switching">>, <<"Cleaning">>, <<"Repair">> >>),
                         Box(<<"Facility", " ", "Type">>, << <<"Private">> >>) >>,
        !.additional = ("Onsite Scale" :> <<"Yes">>) @@ ("Heating Capabilities" :> <<"Steam">>),
        !.hours = ("monday" :> <<"8-5">>) @@ ("sunday" :> <<"Closed">>),
        !.about = <<"A yard.">>,
        !.storage_name = <<"Acme", " ", "Railcar Storage Facility", " ">>,
        !.info = ("Location" :> <<"Houston", ",", " ", "TX">>) @@ ("Capacity" :> <<"120">>)]

\* A page on which a heading that merely contains "Security", in another
\* letter case and over a box without values, comes before the box headed
\* "Security"; both after a box without a title.
SecurityPage ==
    [Page(T_Facility, "none") EXCEPT
        !.boxes = << UntitledBox(<< <<"Stray">> >>),
                     Box(<<"Site", " ", "SECURITY", " ", "Notes">>, << <<"See more">> >>),
                     Box(<<"Security">>, << <<"Fenced">>, <<"Lit">> >>) >>]

\* A page on which "TRACK TYPEs" comes before "Track Type", and "Track
\* Capacity" after a heading it is part of.
TrackPage ==
    [Page(T_Storage, "none") EXCEPT
        !.boxes = << Box(<<" ", "TRACK", " ", "TYPE", "s">>, << <<"Ladder">> >>),
                     Box(<<"Track", " ", "Type">>, << <<"Stub">> >>),
                     Box(<<"Old", " ", "Track", " ", "Capacity">>, <<>>),
                     Box(<<"Track", " ", "Capacity">>, << <<"40 cars">> >>),
                     UntitledBox(<< <<"Facility", " ", "Type">> >>),
                     Box(<<"Facility", " ", "Type">>, << <<"Private">>, <<"Public">> >>) >>]

\* The pages handed to the extractors: the full page; pages with no data at
\* all, with and without a title; error titles; JSON-LD that is not an
\* object, does not decode, lacks every key, or holds null and object values
\* where strings are expected; pages with several boxes for one heading.
ExtractPages ==
    { FullPage,
      Page(<<>>, "none"),
      Page(T_Facility, "none"),
      Page(T_Storage, "none"),
      Page(T_Facility, "invalid"),
      Page(T_Facility, "array"),
      Page(T_404, "object"),
      [FullPage EXCEPT !.title = T_404],
      [FullPage EXCEPT !.title = T_50x],
      Page(T_Error, "none"),
      [FullPage EXCEPT !.title = T_ERROR],
      [Page(T_Facility, "object") EXCEPT !.biz = BareBiz],
      [Page(T_Facility, "object") EXCEPT !.biz.type = "WebSite"],
      [Page(T_Facility, "object") EXCEPT !.biz.telephone = PyNone],
      [Page(T_Facility, "object") EXCEPT !.biz.address = PyNone],
      [Page(T_Facility, "object") EXCEPT !.biz.address = BareAddress],
      [Page(T_Facility, "object") EXCEPT !.biz.address.addressCountry = [t |-> "dict"]],
      [Page(T_Facility, "none") EXCEPT !.info = ("Location" :> <<"Houston">>)],
      SecurityPage, TrackPage }

InitExtract ==
    /\ urlsFile \in { [exists |-> TRUE, lines |-> <<u>>] : u \in {1, 7, U_NoPattern, U_TwoPatterns} }
    /\ progressFile = NoFile
    /\ csvDisk = NoFile
    /\ pc = "idle"
    /\ crawler \in {"facility", "railcar"}
    /\ resume = FALSE /\ limit = 0
    /\ pending = <<>> /\ i = 0
    /\ completed = {} /\ failed = <<>>
    /\ success_count = 0 /\ fail_count = 0
    /\ session_id = "" /\ facility = NoFacility
    /\ csvBuf = <<>>
    /\ attempt = 0 /\ sol = NoneSol
    /\ exc = "none"
    /\ runs = 0
    /\ loaded = {}
    /\ fetched = <<>> /\ posts = 0 /\ sleeps = <<>>
    /\ saves = 0 /\ parsed = <<>>
    /\ creates = 0 /\ destroys = 0
    /\ faults = 0
    /\ signal = "none" /\ fails = 0 /\ rows0 = 0
    /\ rests = <<>>
    /\ bee = BeeIdle

\* Runs of either crawler on a one-URL list whose fetch is solved at once and
\* returns one of the pages above.
NextExtract ==
    \/ StartRun(FALSE, 0, "sid")
    \/ BeginIteration
    \/ \E page \in ExtractPages : Attempt([status |-> "ok", solution |-> Solved(page, U_Page)])
    \/ ExtractAndWrite
    \/ ExtractRejected
    \/ ExtractRaises
    \/ Flush
    \/ MarkSuccess
    \/ PeriodicSkip
    \/ RateSleep
    \/ LoopExhausted
    \/ FinallyClose
    \/ FinallySave(TRUE)
    \/ FinallyDestroy(TRUE)

SpecExtract == InitExtract /\ [][NextExtract]_vars

\* ----------------------------------------- the count-verification utility

\* What one requests.get can give: an exception (a timeout among them), or a
\* response with a status code and a text, of which the length and the words
\* that matter are kept.
BeeTexts ==
    { [length |-> 0, words |-> <<>>],
      [length |-> 1000, words |-> <<"<html>", "commtrex">>],
      [length |-> 1001, words |-> <<"<html>", "blocked">>],
      [length |-> 1001, words |-> <<"<html>", "commtrex", "</html>">>],
      [length |-> 5000, words |-> <<"<html>", "Commtrex", " ", "Transloading">>] }

BeeResponses ==
    { [kind |-> "exception"] }
    \cup { [kind |-> "http", status_code |-> c, text |-> t] : c \in {200, 403}, t \in BeeTexts }

\* The pages the utility asks for: the main page, a state's page.
BeeUrls == {"transloading.html", "transloading/texas.html"}

\* A check that takes any long enough text.
BeeAcceptsAnyText(r) ==
    r.kind = "http" /\ r.status_code = 200 /\ r.text.length > 1000

\* response.status_code == 200 and len(response.text) > 1000
\* and 'commtrex' in response.text.lower()
BeeAccepts(r) ==
    /\ r.kind = "http" /\ r.status_code = 200
    /\ r.text.length > 1000
    /\ Contains(<<"commtrex">>, Lower(r.text.words))

\* A backoff that also sleeps after the last attempt.
BeeSleepsAfterEvery(a, n) == TRUE

\* if attempt < retries - 1
BeeSleepsAfter(a, n) == a < n - 1

\* time.sleep(2 ** attempt)
BeeBackoff(a) == 2 ^ a

\* The call: the ValueError when the key is not set, or the start of
\* "for attempt in range(retries)", which ends at once when retries is 0.
ScrapeCall(key, u, n) ==
    /\ bee.pc \in {"idle", "returned", "raised"}
    /\ bee' = [BeeIdle EXCEPT !.key = key, !.url = u, !.retries = n,
                              !.pc = IF ~key THEN "raised"
                                     ELSE IF n > 0 THEN "request" ELSE "returned"]
    /\ UNCHANGED <<disk, proc, obs>>

\* One pass of the loop body up to the sleep: the request, then the return of
\* response.text, or the sleep when one is due, or the next pass, or the end
\* of the loop and "return None".
ScrapeAttempt(r) ==
    /\ bee.pc = "request"
    /\ bee' = [bee EXCEPT
                  !.requests = @ + 1,
                  !.response = IF r.kind = "exception" THEN @ ELSE r,
                  !.result = IF BeeAccepts(r) THEN Str(r.text) ELSE PyNone,
                  !.pc = IF BeeAccepts(r) THEN "returned"
                         ELSE IF BeeSleepsAfter(bee.attempt, bee.retries) THEN "sleep"
                         ELSE IF bee.attempt + 1 < bee.retries THEN "request"
                         ELSE "returned",
                  !.attempt = IF /\ ~BeeAccepts(r)
                                 /\ ~BeeSleepsAfter(bee.attempt, bee.retries)
                                 /\ bee.attempt + 1 < bee.retries
                              THEN @ + 1 ELSE @]
    /\ UNCHANGED <<disk, proc, obs>>

\* time.sleep(2 ** attempt), then the next pass or the end of the loop.
ScrapeSleep ==
    /\ bee.pc = "sleep"
    /\ bee' = [bee EXCEPT
                  !.slept = Append(@, BeeBackoff(bee.attempt)),
                  !.pc = IF bee.attempt + 1 < bee.retries THEN "request" ELSE "returned",
                  !.attempt = IF bee.attempt + 1 < bee.retries THEN @ + 1 ELSE @]
    /\ UNCHANGED <<disk, proc, obs>>

NextVerify ==
    \/ \E key \in BOOLEAN, u \in BeeUrls, n \in 0..MaxBeeRetries : ScrapeCall(key, u, n)
    \/ \E r \in BeeResponses : ScrapeAttempt(r)
    \/ ScrapeSleep

\* The utility reads none of the crawlers' files.
InitVerify == Init /\ urlsFile = NoFile

SpecVerify == InitVerify /\ [][NextVerify]_vars

\* ------------------------------------------------- runs that are let to run

\* A step of main() itself, in a process that is not killed and whose fetch
\* attempts, sleeps and checkpoint writes all return: requests.post has a
\* timeout, every loop of main() and flaresolverr_get is a for loop over a
\* finite range.  Every fetch of the long input file meets a clean page; the
\* fetches of the short ones meet every answer.
RunStep ==
    \/ BeginIteration
    \/ \E r \in Responses : (IsLong => r = CleanResponse) /\ Attempt(r)
    \/ Backoff
    \/ HandleNoSolution
    \/ HandleServerError
    \/ ExtractAndWrite
    \/ ExtractRejected
    \/ ExtractRaises
    \/ Flush
    \/ MarkSuccess
    \/ PeriodicSave(TRUE)
    \/ PeriodicSkip
    \/ RateSleep
    \/ LoopExhausted
    \/ FinallyClose
    \/ FinallySave(TRUE)
    \/ \E ok \in BOOLEAN : FinallyDestroy(ok)

NextLive ==
    \/ \E r \in BOOLEAN : StartRun(r, 0, "sid")
    \/ RunStep
    \/ (~IsLong /\ Interrupt)

\* The process goes on as long as it has a step to take.
SpecLive == Init /\ [][NextLive]_vars /\ WF_vars(RunStep)

\* ------------------------------------------------------------ the claims

\* Rows this run has handed to the writer: those it appended on disk and
\* those still in the writer's buffer.
TableRows(t) == IF t.exists THEN t.rows ELSE <<>>

NewRows == SubSeq(TableRows(csvDisk), rows0 + 1, Len(TableRows(csvDisk))) \o csvBuf

RECURSIVE SumSeq(_)
SumSeq(q) == IF q = <<>> THEN 0 ELSE q[1] + SumSeq(Tail(q))

\* A step of the loop body itself at "classify": not the interrupt, not a kill.
ClassifyStep == pc = "classify" /\ signal' = signal /\ pc' # "killed"

\* The start of a resumed run.
ResumedStart == pc \in EndPcs /\ pc' = "top" /\ resume'

\* C1: in a run started with --resume, no URL of the completed set loaded from
\* the checkpoint is ever passed to flaresolverr_get, for every --limit; URLs
\* that entered the checkpoint as soft server errors included.
C1_NoRefetchOfLoaded == resume => Range(fetched) \cap loaded = {}

\* A resumed run that has fetched something while the checkpoint it loaded
\* holds a URL recorded as a server error.
C1_Witness ==
    /\ resume /\ pc \in LoopPcs /\ saves = 0 /\ fetched # <<>>
    /\ progressFile.exists
    /\ \E k \in 1..Len(progressFile.failed) :
          /\ progressFile.failed[k].error = "server_error"
          /\ progressFile.failed[k].url \in loaded

\* C2: a resumed run never hands the writer a row for a URL of the loaded
\* completed set C, and every checkpoint it writes, the one at shutdown
\* included, holds a superset of C.
C2_IdempotentResume ==
    resume =>
        /\ \A k \in 1..Len(NewRows) : NewRows[k] \notin loaded
        /\ saves > 0 => loaded \subseteq progressFile.completed
        /\ pc = "done" => saves > 0 /\ progressFile.completed = completed

\* A resumed run over a non-empty C that ran to completion and appended a row.
C2_Witness ==
    /\ resume /\ pc = "done" /\ exc = "none" /\ loaded # {}
    /\ Len(TableRows(csvDisk)) > rows0
    /\ progressFile.completed # loaded

\* C3 as stated: when flaresolverr_get returns nothing, the iteration leaves
\* completed alone, appends exactly one flaresolverr_failed entry and writes no
\* row; and every later resumed run has the URL in its queue.
C3_Original ==
    [][ /\ (ClassifyStep /\ Falsy(sol)) =>
              /\ completed' = completed
              /\ failed' = Append(failed, [url |-> url, error |-> "flaresolverr_failed"])
              /\ csvBuf' = csvBuf /\ csvDisk' = csvDisk
        /\ (ResumedStart /\ progressFile.exists) =>
              \A k \in 1..Len(progressFile.failed) :
                  progressFile.failed[k].error = "flaresolverr_failed"
                      => progressFile.failed[k].url \in Range(pending')
      ]_vars

\* C3 as amended: the same iteration effect; a later resumed run has the URL in
\* its queue when it runs without --limit and the URL is not in the
\* checkpoint's completed set (a repeated line of the URL list can have
\* completed it after the failure).
C3_SolverFailureStaysPending ==
    [][ /\ (ClassifyStep /\ Falsy(sol)) =>
              /\ completed' = completed
              /\ failed' = Append(failed, [url |-> url, error |-> "flaresolverr_failed"])
              /\ csvBuf' = csvBuf /\ csvDisk' = csvDisk
        /\ (ResumedStart /\ progressFile.exists /\ limit' = 0) =>
              \A k \in 1..Len(progressFile.failed) :
                  (/\ progressFile.failed[k].error = "flaresolverr_failed"
                   /\ progressFile.failed[k].url \notin progressFile.completed)
                      => progressFile.failed[k].url \in Range(pending')
      ]_vars

\* A resumed run without a limit whose queue holds a URL that the checkpoint
\* lists as flaresolverr_failed.
C3_Witness ==
    /\ resume /\ limit = 0 /\ pc = "top" /\ i = 0 /\ saves = 0
    /\ progressFile.exists
    /\ \E k \in 1..Len(progressFile.failed) :
          /\ progressFile.failed[k].error = "flaresolverr_failed"
          /\ progressFile.failed[k].url \notin progressFile.completed
          /\ progressFile.failed[k].url \in Range(pending)

\* C4: when the solved fetch's final URL is an error redirect (error/50x or
\* error/404), the iteration adds the URL to completed, appends exactly one
\* server_error entry carrying the redirect target, does not call the
\* extractor and writes no row.
C4_ServerErrorIsCompleted ==
    [][ (ClassifyStep /\ sol.kind = "dict" /\ sol.url \in {U_50x, U_404}) =>
            /\ completed' = completed \cup {url}
            /\ failed' = Append(failed, [url |-> url, error |-> "server_error",
                                         redirect |-> sol.url])
            /\ parsed' = parsed
            /\ csvBuf' = csvBuf /\ csvDisk' = csvDisk
      ]_vars

\* A run that recorded a redirect to error/404 and never called the extractor.
C4_Witness ==
    /\ pc = "sleep" /\ parsed = <<>> /\ NewRows \in {<<>>, <<HEADER>>}
    /\ \E k \in 1..Len(failed) :
          /\ failed[k].error = "server_error"
          /\ failed[k].redirect = U_404
          /\ failed[k].url \in completed

\* C5: after a run that went through its whole queue, every page found dead,
\* by an error redirect or by its in-body error title (parse_failed), is in
\* the persisted completed set, so that no resumed run fetches it again.
C5_DeadPagesCompleted ==
    (pc = "done" /\ exc = "none") =>
        \A k \in 1..Len(failed) :
            failed[k].error \in {"server_error", "parse_failed"}
                => failed[k].url \in progressFile.completed

\* C6: a flaresolverr_get call all of whose attempts failed made exactly
\* MAX_RETRIES posts, slept base_delay*k after failed attempt k < MAX_RETRIES
\* and not after the last one (base_delay*(1+2) in all), and returned None.
C6_RetryBound ==
    /\ posts <= MAX_RETRIES
    /\ (pc = "classify" /\ posts > 0 /\ fails = posts) =>
          /\ posts = MAX_RETRIES
          /\ Len(sleeps) = MAX_RETRIES - 1
          /\ \A k \in 1..Len(sleeps) : sleeps[k] = DELAY_BETWEEN_REQUESTS * k
          /\ SumSeq(sleeps) = DELAY_BETWEEN_REQUESTS * (1 + 2)
          /\ sol = NoneSol
    /\ (pc = "backoff" /\ fails = posts) =>
          fails < MAX_RETRIES /\ Len(sleeps) = fails - 1
    /\ (pc = "attempt" /\ fails = posts) => Len(sleeps) = fails

\* A call that has just returned after three failed attempts.
C6_Witness == pc = "classify" /\ fails = MAX_RETRIES /\ posts = MAX_RETRIES

\* C7: a run that processes n URLs to normal completion has written the
\* checkpoint once per 25 processed URLs plus once at shutdown.
C7_CheckpointCadence ==
    (pc = "done" /\ exc = "none") =>
        saves = (Len(pending) \div CHECKPOINT_EVERY) + 1

\* The completed set of the last checkpoint this run wrote.
LastPersisted == IF saves > 0 THEN progressFile.completed ELSE {}

\* C8: at the start of every loop iteration at most 24 URLs are in the
\* in-memory completed set and neither in the last persisted checkpoint nor in
\* the loaded one.
C8_BoundedLoss ==
    pc = "top" =>
        Cardinality(completed \ (LastPersisted \cup loaded)) <= CHECKPOINT_EVERY - 1

\* C9: once the interrupt has arrived inside the loop, wherever it arrived, the
\* run is out of the loop for good: it fetches nothing more and changes neither
\* completed nor failed; after the finally block the writer's buffer is on
\* disk, the checkpoint holds the in-memory progress and one destroy request
\* has been issued.
C9_HandledInterrupt ==
    /\ [](signal # "none" =>
            /\ pc \in FinallyPcs \cup {"done", "crashed"}
            /\ pc \in {"finally_save", "finally_destroy", "done"} => csvBuf = <<>>
            /\ pc \in {"finally_destroy", "done"} =>
                  saves > 0 /\ progressFile = save_progress(completed, failed)
            /\ pc = "done" => destroys = 1)
    /\ [][signal' # "none" =>
            /\ completed' = completed /\ failed' = failed
            /\ fetched' = fetched /\ posts' <= posts
            /\ Len(TableRows(csvDisk')) + Len(csvBuf')
                  = Len(TableRows(csvDisk)) + Len(csvBuf)
       ]_vars

\* An interrupt that arrived inside flaresolverr_get, with a row already
\* written and URLs still queued, handled to the end.
C9_Witness ==
    /\ signal = "in_fetch" /\ pc = "done"
    /\ Len(TableRows(csvDisk)) > 1
    /\ i < Len(pending)
    /\ pending[i] \notin completed

\* C10: every run that reaches the loop made one sessions.create request, and
\* on every way out of the loop one sessions.destroy request was issued.
C10_SessionLifecycle ==
    /\ fetched # <<>> => creates = 1
    /\ pc \in {"done", "crashed"} => creates = 1 /\ destroys = 1

\* C11: on the three-URL list, a run without --limit ends with the header and
\* exactly one row (the first URL's) in the table, two failed entries (the
\* second URL as server_error, the third as flaresolverr_failed) and
\* completed = {first, second}, in memory and in the checkpoint; the queue of
\* a resumed run that follows it is the third URL alone.
C11_ThreeUrlScenario ==
    /\ []((pc = "done" /\ runs = 1 /\ limit = 0) =>
            /\ TableRows(csvDisk) = <<HEADER, 1>>
            /\ Len(failed) = 2
            /\ failed[1].url = 2 /\ failed[1].error = "server_error"
            /\ failed[2] = [url |-> 3, error |-> "flaresolverr_failed"]
            /\ completed = {1, 2}
            /\ progressFile.completed = {1, 2}
            /\ progressFile.total_failed = 2)
    /\ [][(pc = "done" /\ runs = 1 /\ limit = 0 /\ pc' = "top" /\ resume')
            => pending' = <<3>>]_vars

\* The resumed run that followed has fetched the third URL and nothing else.
C11_Witness ==
    /\ pc = "done" /\ runs = 2 /\ resume /\ loaded = {1, 2}
    /\ fetched = <<3>>
    /\ TableRows(csvDisk) = <<HEADER, 1>>

\* C12: whatever the outcome of a URL, between its last request and the first
\* request for the next URL of the queue the run sleeps exactly once, for
\* args.delay; the first URL of a run is fetched without a sleep before it.
C12_RateLimit ==
    /\ (pc = "attempt" /\ posts = 0) =>
          rests = (IF i = 1 THEN <<>> ELSE <<[kind |-> "rate", secs |-> ArgsDelay]>>)
    /\ (pc = "top" /\ i > 0) => rests = <<[kind |-> "rate", secs |-> ArgsDelay]>>
    /\ pc \in {"classify", "flush", "mark", "periodic", "sleep"} => rests = <<>>

\* The second URL of a queue about to be requested, after a first URL that
\* exhausted its retries.
C12_Witness ==
    /\ pc = "attempt" /\ posts = 0 /\ i = 2
    /\ Len(failed) = 1 /\ failed[1].error = "flaresolverr_failed"
    /\ rests = <<[kind |-> "rate", secs |-> ArgsDelay]>>

\* C13: no failure of the fetch or of the extractor ends the crawl loop: the
\* step that classifies a fetched URL either hands a row to the writer or
\* appends one failed entry, and in both cases stays in the loop.
C13_FailureContainment ==
    [][ ClassifyStep =>
            /\ pc' \in LoopPcs
            /\ \/ Len(csvBuf') = Len(csvBuf) + 1 /\ failed' = failed
               \/ Len(failed') = Len(failed) + 1 /\ csvBuf' = csvBuf
      ]_vars

\* The start of a run that reaches the loop.
RunStart == pc \in EndPcs /\ pc' = "top"

\* The rows of a sequence that are records, not the header.
DataRows(q) == SelectSeq(q, LAMBDA x : x # HEADER)

\* What C14 says of the rows, whatever the mode: a successful extraction
\* hands exactly one row, the URL's, to the writer, and when the next URL is
\* taken from the queue every row of this run is on disk, one per success.
C14_OneRowPerSuccess ==
    /\ [](pc = "top" =>
            /\ DataRows(csvBuf) = <<>>
            /\ Len(DataRows(NewRows)) = success_count
            /\ Range(DataRows(NewRows)) \subseteq completed)
    /\ [][(pc = "classify" /\ pc' = "flush") => csvBuf' = Append(csvBuf, url)]_vars
    /\ [][(pc = "flush" /\ pc' = "mark") =>
              /\ csvBuf' = <<>>
              /\ TableRows(csvDisk') = TableRows(csvDisk) \o csvBuf]_vars

\* C14 as stated: a run with --resume leaves the rows of the table as they
\* are and writes no header; a run without it truncates the table and writes
\* the header first; one row is written and flushed per successful extraction.
C14_Original ==
    /\ C14_OneRowPerSuccess
    /\ [][RunStart =>
            IF resume'
            THEN TableRows(csvDisk') = TableRows(csvDisk) /\ csvBuf' = <<>>
            ELSE TableRows(csvDisk') = <<>> /\ csvBuf' = <<HEADER>>
         ]_vars

\* C14 as amended: a run with --resume writes no header when the table
\* already exists; when there is no table yet it creates one and writes the
\* header, as a run without --resume does.
C14_TableMode ==
    /\ C14_OneRowPerSuccess
    /\ [][RunStart =>
            IF resume' /\ csvDisk.exists
            THEN csvDisk' = csvDisk /\ csvBuf' = <<>>
            ELSE csvDisk' = [exists |-> TRUE, rows |-> <<>>] /\ csvBuf' = <<HEADER>>
         ]_vars

\* A resumed run that appended a row to a table an earlier run had written:
\* the table holds one header, in its first line.
C14_Witness ==
    /\ resume /\ pc = "top" /\ rows0 > 1 /\ success_count = 1
    /\ Len(csvDisk.rows) = rows0 + 1
    /\ csvDisk.rows[1] = HEADER
    /\ Len(DataRows(csvDisk.rows)) = Len(csvDisk.rows) - 1

\* The lines of a list that are not blank and not in a set, in their order.
RECURSIVE Keep(_, _)
Keep(lines, done) ==
    IF lines = <<>> THEN <<>>
    ELSE IF Head(lines) = BLANK \/ Head(lines) \in done THEN Keep(Tail(lines), done)
    ELSE <<Head(lines)>> \o Keep(Tail(lines), done)

\* C15: the queue a run builds is a prefix of the URL list without its blank
\* lines and, when resuming, without the checkpoint's completed set, in input
\* order: the whole of it when --limit is 0, its first `limit` entries (all of
\* them when there are fewer) otherwise; the URLs fetched so far are always
\* the first i entries of the queue, in queue order.
C15_QueueConstruction ==
    /\ [][RunStart =>
            LET F == Keep(urlsFile.lines,
                          IF resume' THEN load_progress(progressFile) ELSE {})
                n == IF limit' = 0 \/ limit' > Len(F) THEN Len(F) ELSE limit'
            IN  /\ pending' = SubSeq(F, 1, n)
                /\ limit' # 0 => Len(pending') <= limit'
         ]_vars
    /\ [](/\ i <= Len(pending)
          /\ fetched = SubSeq(pending, 1, i))

\* A run with --limit 1 on the list with a blank line, finished: the blank
\* line was dropped, the queue was cut to one entry and that entry fetched.
C15_Witness ==
    /\ pc = "done" /\ limit = 1
    /\ urlsFile.lines = <<1, BLANK, 1>>
    /\ pending = <<1>> /\ fetched = <<1>>

\* A solved page is about to be handed to the extractor.
AtExtract == pc = "classify" /\ sol.kind = "dict" /\ ~IsErrorRedirect(sol.url)

\* A page that holds no data: no JSON-LD object, no box, no row, no paragraph.
NoData(html) == \E ld \in {"none", "invalid"} : html = Page(html.title, ld)

\* The fields that are filled from the markup.
MarkupFields == CSV_FIELDS \ {"id", "url", "scraped_at"}

\* C16: for every page whose title passes the guard of parse_facility, the
\* extractor returns a record; and when the page holds no data, every field
\* filled from the markup is the empty string (the name too, when there is no
\* title to fall back on).
C16_ExtractionDefaults ==
    (AtExtract /\ crawler = "facility" /\ ~TitleRejected(sol.response.title)) =>
        LET r == parse_facility(sol.response, url)
        IN  /\ r.kind = "record"
            /\ NoData(sol.response) =>
                  /\ \A f \in MarkupFields \ {"name"} : r.fields[f] = EmptyStr
                  /\ sol.response.title = <<>> => r.fields.name = EmptyStr

\* The multi-valued attributes of each record, with the heading they come from.
MultiValued ==
    IF crawler = "railcar"
    THEN { <<"rail_services", <<"Rail Services Offered">> >>,
           <<"facility_types", <<"Facility", " ", "Type">> >>,
           <<"track_types", <<"Track", " ", "Type">> >> }
    ELSE { <<"product_types", <<"Product Types Handled">> >>,
           <<"transfer_modes", <<"Transfer Modes">> >>,
           <<"railroads", <<"Serving Class I Railroads">> >>,
           <<"security_features", <<"Security">> >>,
           <<"equipment", <<"Transload Equipment">> >>,
           <<"cities_served", <<"Cities Served">> >> }

\* text is the values, each of one piece, with "; " between neighbours.
JoinedBySemicolon(text, values) ==
    /\ Len(text) = (IF values = <<>> THEN 0 ELSE 2 * Len(values) - 1)
    /\ \A k \in 1..Len(values) : text[2 * k - 1] = values[k][1]
    /\ \A k \in 1..(Len(values) - 1) : text[2 * k] = "; "

\* C17: every record either extractor returns has exactly the keys of its
\* crawler's CSV_FIELDS, every value is a string, and each multi-valued
\* attribute is the collected values of its box joined with "; ".
C17_SchemaCompleteness ==
    (AtExtract /\ Extract(sol.response, url).kind = "record") =>
        LET r == Extract(sol.response, url)
        IN  /\ DOMAIN r.fields = (IF crawler = "railcar" THEN StorageCsvFields ELSE CSV_FIELDS)
            /\ \A f \in DOMAIN r.fields : r.fields[f].t = "str"
            /\ \A m \in MultiValued :
                  /\ r.fields[m[1]].t = "str"
                  /\ JoinedBySemicolon(r.fields[m[1]].v, get_box_values(sol.response, m[2]))

\* C18: a page whose title contains "404" or "50x" gives no record with
\* either extractor, whatever else it holds: the extractor returns None, and
\* the iteration writes no row and records the URL as parse_failed.
C18_ErrorPageRejection ==
    /\ []((/\ AtExtract
           /\ \/ Contains(<<"4", "0", "4">>, sol.response.title)
              \/ Contains(<<"5", "0", "x">>, sol.response.title))
          => Extract(sol.response, url).kind = "None")
    /\ [][(/\ AtExtract
           /\ \/ Contains(<<"4", "0", "4">>, sol.response.title)
              \/ Contains(<<"5", "0", "x">>, sol.response.title))
          => /\ csvBuf' = csvBuf /\ csvDisk' = csvDisk
             /\ facility' = NoFacility
             /\ failed' = Append(failed, [url |-> url, error |-> "parse_failed"])
         ]_vars

\* The railcar storage crawler has rejected a page: only an error title makes
\* it do so.
C18_Witness ==
    /\ crawler = "railcar" /\ pc = "periodic"
    /\ parsed = <<7>> /\ failed = <<[url |-> 7, error |-> "parse_failed"]>>
    /\ csvBuf = <<HEADER>> /\ facility = NoFacility

\* C19: a run started when the URL list does not exist ends at once with
\* sys.exit(1): the table and the checkpoint on disk are what they were, no
\* checkpoint has been loaded or written, no session was created and nothing
\* was fetched.
C19_FatalStartup ==
    /\ [][(pc \in EndPcs /\ ~urlsFile.exists /\ runs' = runs + 1) =>
            /\ pc' = "exited"
            /\ csvDisk' = csvDisk /\ csvBuf' = <<>>
            /\ progressFile' = progressFile
            /\ loaded' = {} /\ saves' = 0
            /\ creates' = 0 /\ session_id' = ""
            /\ fetched' = <<>> /\ posts' = 0
         ]_vars
    /\ [](pc = "exited" => ~urlsFile.exists /\ ~ENABLED (BeginIteration \/ FinallyClose))

\* A run without --resume, which would truncate the table, has exited for
\* want of the URL list over the table and the checkpoint of an earlier run.
C19_Witness ==
    /\ pc = "exited" /\ ~resume
    /\ csvDisk.exists /\ Len(csvDisk.rows) > 1
    /\ progressFile.exists /\ progressFile.completed # {}

\* A step of flaresolverr_get: an attempt or a backoff sleep.
FetcherStep == pc \in {"attempt", "backoff"} /\ pc' \in {"attempt", "backoff", "classify"}

\* What flaresolverr_get leaves alone.
FetcherFrame ==
    [][FetcherStep =>
          /\ completed' = completed /\ failed' = failed
          /\ csvDisk' = csvDisk /\ csvBuf' = csvBuf
          /\ progressFile' = progressFile
      ]_vars

\* C20 as stated: at the first attempt whose response has status "ok" the
\* fetcher returns, with no further attempt and no further sleep; and it
\* changes neither completed, nor failed, nor the table.
C20_Original ==
    /\ [][pc = "attempt" => \A r \in Responses :
            (r.status \in {"ok", "ok_no_solution"} /\ Attempt(r)) =>
                 /\ pc' = "classify"
                 /\ sleeps' = sleeps /\ attempt' = attempt
         ]_vars
    /\ FetcherFrame

\* C20 as amended: at the first attempt whose response has status "ok" and
\* holds a solution, the fetcher returns that solution, with no further
\* attempt and no further sleep; a response with status "ok" and no solution
\* counts as a failed attempt.  The frame is as stated.
C20_ReturnsAtFirstOk ==
    /\ [][pc = "attempt" => \A r \in Responses :
            /\ (r.status = "ok" /\ Attempt(r)) =>
                 /\ pc' = "classify" /\ sol' = r.solution
                 /\ posts' = posts + 1 /\ fails' = fails
                 /\ sleeps' = sleeps /\ attempt' = attempt
            /\ (r.status = "ok_no_solution" /\ Attempt(r)) =>
                 /\ fails' = fails + 1
                 /\ attempt < MAX_RETRIES => pc' = "backoff"
         ]_vars
    /\ [](pc = "classify" => posts = fails + (IF fails < MAX_RETRIES THEN 1 ELSE 0))
    /\ FetcherFrame

\* The fetcher has returned a page at its second attempt, after one failed
\* attempt and one sleep, in a run that had already completed a URL.
C20_Witness ==
    /\ pc = "classify" /\ posts = 2 /\ fails = 1 /\ sleeps = <<DELAY_BETWEEN_REQUESTS>>
    /\ sol.kind = "dict"
    /\ i = 2 /\ completed # {} /\ Len(TableRows(csvDisk)) > 1

\* C21: at the end of every loop iteration, success_count + fail_count is the
\* number of URLs processed so far in this run, fail_count is the length of
\* the failed list and success_count is the number of rows this run has
\* written to the table.
C21_CounterInvariant ==
    (pc \in {"sleep", "top"}) =>
        /\ success_count + fail_count = i
        /\ fail_count = Len(failed)
        /\ success_count = Len(DataRows(NewRows))

\* The end of a second iteration, after one success and one failure.
C21_Witness ==
    /\ pc = "sleep" /\ i = 2
    /\ success_count = 1 /\ fail_count = 1
    /\ Len(failed) = 1 /\ Len(DataRows(NewRows)) = 1

\* C22: a run without --resume starts from an empty completed set whatever
\* checkpoint exists, builds its queue from the whole URL list, and every
\* checkpoint it writes holds the completed set of this run only, all of it
\* fetched in this run, in place of what the file held.
C22_FreshRunIgnoresCheckpoint ==
    /\ [][(RunStart /\ ~resume') =>
            /\ completed' = {}
            /\ pending' = ApplyLimit(Keep(urlsFile.lines, {}), limit')
            /\ progressFile' = progressFile]_vars
    /\ [](~resume => completed \subseteq Range(fetched))
    /\ [][(~resume /\ progressFile' # progressFile) =>
            /\ progressFile' = save_progress(completed, failed)
            /\ progressFile'.completed \subseteq Range(fetched)]_vars

\* A run without --resume, started on a disk whose checkpoint lists a URL as
\* completed, has that URL in its queue and is fetching it.
C22_Witness ==
    /\ ~resume /\ runs = 2 /\ pc = "attempt" /\ saves = 0
    /\ progressFile.exists
    /\ url \in progressFile.completed
    /\ completed = {}

\* The headings either extractor looks up.
BoxHeadings ==
    { <<"Product Types Handled">>, <<"Hazardous Material Handling">>,
      <<"Transfer Modes">>, <<"Serving Class I Railroads">>,
      <<"Track", " ", "Capacity">>, <<"Security">>, <<"Transload Equipment">>,
      <<"Cities Served">>, <<"Rail Services Offered">>,
      <<"Facility", " ", "Type">>, <<"Track", " ", "Type">> }

\* A box matches a heading: it has a title, and the title, letter case apart,
\* holds the heading.
BoxMatches(box, heading) ==
    box.titled /\ Contains(Lower(heading), Lower(Strip(box.title)))

\* The boxes of a page that match a heading and have no matching box before them.
FirstMatches(boxes, heading) ==
    { k \in 1..Len(boxes) :
        /\ BoxMatches(boxes[k], heading)
        /\ \A j \in 1..(k - 1) : ~BoxMatches(boxes[j], heading) }

\* C23: for every heading, get_box_values gives the values of the first box, in
\* document order, whose title holds the heading (letter case apart), also
\* when that box yields no values or a later title is the heading itself; it
\* gives nothing when no box matches.  The record's fields are built from them.
C23_FirstMatchWins ==
    AtExtract =>
        /\ \A h \in BoxHeadings :
              LET boxes == sol.response.boxes
                  F == FirstMatches(boxes, h)
              IN  IF F = {} THEN get_box_values(sol.response, h) = <<>>
                  ELSE \A k \in F :
                          get_box_values(sol.response, h) = CleanValues(boxes[k].children)
        /\ Extract(sol.response, url).kind = "record" =>
              \A m \in MultiValued :
                  LET F == FirstMatches(sol.response.boxes, m[2])
                      text == Extract(sol.response, url).fields[m[1]]
                  IN  IF F = {} THEN text = EmptyStr
                      ELSE \A k \in F :
                              text = Str(Join(CleanValues(sol.response.boxes[k].children)))

\* The railcar storage crawler has written the record of the page on which
\* "TRACK TYPEs" comes before "Track Type": the values are the first box's.
C23_Witness ==
    /\ crawler = "railcar" /\ pc = "flush" /\ facility.kind = "record"
    /\ facility.fields.track_types = Str(<<"Ladder">>)
    /\ facility.fields.facility_types = Str(<<"Private", "; ", "Public">>)

\* The title holds "error" in some letter case.
HasError(title) == \E k \in 1..(Len(title) - 4) :
    Lower(SubSeq(title, k, k + 4)) = <<"e", "r", "r", "o", "r">>

HasErrorCode(title) ==
    Contains(<<"5", "0", "x">>, title) \/ Contains(<<"4", "0", "4">>, title)

\* C24: on a page whose title holds "error" in any letter case, parse_facility
\* returns None and its crawler records parse_failed without a row; on the same
\* page parse_railcar_storage returns a record, which its crawler writes, when
\* the title holds neither "50x" nor "404".
C24_TitleGuardsDiffer ==
    /\ []((AtExtract /\ HasError(sol.response.title)) =>
            /\ parse_facility(sol.response, url).kind = "None"
            /\ ~HasErrorCode(sol.response.title) =>
                  parse_railcar_storage(sol.response, url).kind = "record")
    /\ [][(AtExtract /\ HasError(sol.response.title)) =>
            IF crawler = "facility"
            THEN /\ csvBuf' = csvBuf /\ facility' = NoFacility
                 /\ failed' = Append(failed, [url |-> url, error |-> "parse_failed"])
            ELSE ~HasErrorCode(sol.response.title) =>
                    /\ failed' = failed
                    /\ facility'.kind = "record"
                    /\ csvBuf' = Append(csvBuf, url)
         ]_vars

\* The railcar storage crawler has written the record of a page titled
\* "Error": its name is the title.
C24_Witness ==
    /\ crawler = "railcar" /\ pc = "flush" /\ facility.kind = "record"
    /\ facility.fields.name = Str(T_Error)
    /\ failed = <<>> /\ csvBuf = <<HEADER, url>>

\* C25: the id of a record is the digits of the first /location/<digits>.html
\* of the URL, and the empty string when the URL has none; a URL without the
\* pattern gets a record where another URL would, and the record is written.
C25_RecordId ==
    /\ []((AtExtract /\ Extract(sol.response, url).kind = "record") =>
            LET s == UrlText(url)
                id == Extract(sol.response, url).fields.id
            IN  /\ id.t = "str"
                /\ url = U_TwoPatterns => id = Str(<<"9">>)
                /\ id.v # <<>> =>
                      \E k \in 1..(Len(s) - 2) :
                          /\ <<s[k], s[k + 2]>> = <<"/location/", ".html">>
                          /\ IsDigits(s[k + 1]) /\ id.v = <<s[k + 1]>>
                          /\ \A j \in 1..(k - 1) :
                                ~(/\ <<s[j], s[j + 2]>> = <<"/location/", ".html">>
                                  /\ IsDigits(s[j + 1]))
                /\ id.v = <<>> =>
                      \A k \in 1..(Len(s) - 2) :
                          ~(/\ <<s[k], s[k + 2]>> = <<"/location/", ".html">>
                            /\ IsDigits(s[k + 1])))
    /\ [](AtExtract =>
            Extract(sol.response, U_NoPattern).kind = Extract(sol.response, 1).kind)
    /\ [][(AtExtract /\ Extract(sol.response, url).kind = "record") =>
            /\ facility' = Extract(sol.response, url)
            /\ csvBuf' = Append(csvBuf, url)]_vars

\* The record of a URL without the pattern is on disk, its id empty.
C25_Witness ==
    /\ pc = "mark" /\ url = U_NoPattern
    /\ facility.kind = "record" /\ facility.fields.id = EmptyStr
    /\ csvDisk.rows = <<HEADER, U_NoPattern>>

\* The sleeps of a call after its first n failed attempts: 1, 2, 4, ...
PowersOfTwo(n) == [k \in 1..n |-> 2 ^ (k - 1)]

\* A response that is HTTP 200 with more than 1000 characters that hold
\* "commtrex" (in the letter case of the text or another).
GoodBody(r) ==
    /\ r.kind = "http" /\ r.status_code = 200 /\ r.text.length > 1000
    /\ \E k \in 1..Len(r.text.words) : r.text.words[k] \in {"commtrex", "Commtrex", "COMMTREX"}

\* C26: scrape_with_scrapingbee makes at most `retries` requests; an attempt
\* whose response is HTTP 200 with more than 1000 characters holding
\* "commtrex" returns the text there and then, with no further request or
\* sleep; after failed attempt k (from 0) it has slept 2^0 .. 2^k, but not
\* after the last one; and when every attempt failed it returns None.
C26_ScrapingBeeRetries ==
    /\ [](/\ bee.requests <= bee.retries
          /\ bee.pc = "request" =>
                /\ bee.requests = bee.attempt /\ bee.attempt < bee.retries
                /\ bee.slept = PowersOfTwo(bee.attempt)
          /\ bee.pc = "sleep" =>
                /\ bee.requests = bee.attempt + 1 /\ bee.attempt < bee.retries - 1
                /\ bee.slept = PowersOfTwo(bee.attempt)
          /\ (bee.pc = "returned" /\ bee.result = PyNone) =>
                /\ bee.requests = bee.retries
                /\ bee.slept = PowersOfTwo(IF bee.retries = 0 THEN 0 ELSE bee.retries - 1)
          /\ (bee.pc = "returned" /\ bee.result # PyNone) =>
                /\ bee.requests = bee.attempt + 1
                /\ bee.slept = PowersOfTwo(bee.attempt))
    /\ [][bee.pc = "request" =>
            \A r \in BeeResponses :
                ScrapeAttempt(r) =>
                    IF GoodBody(r)
                    THEN /\ bee'.pc = "returned" /\ bee'.result = Str(r.text)
                         /\ bee'.slept = bee.slept
                    ELSE /\ bee'.result = PyNone
                         /\ bee'.pc = "returned" => bee.attempt = bee.retries - 1
         ]_vars
    /\ [][bee.pc = "returned" => bee'.pc # "sleep" /\ bee'.requests = 0]_vars

\* A call with retries = 3 has returned a text at its third attempt, after
\* sleeping 1 s and 2 s.
C26_Witness ==
    /\ bee.pc = "returned" /\ bee.retries = 3 /\ bee.requests = 3
    /\ bee.result # PyNone /\ bee.slept = <<1, 2>>

\* The URLs of the three-URL list whose page is extracted when they are
\* fetched: those a run completes by writing a row.
ScenarioExtracted ==
    { u \in Range(ScenarioFile) :
        \A r \in ScenarioResponses(u) :
            /\ Returns(r) /\ ~Falsy(r.solution) /\ ~IsErrorRedirect(FinalUrl(r.solution))
            /\ parse_facility(r.solution.response, u).kind = "record" }

\* The URLs a run started now with --resume would leave out of its queue.
SkippedOnResume ==
    Range(ReadUrls(urlsFile.lines))
        \ Range(BuildQueue(ReadUrls(urlsFile.lines), load_progress(progressFile), 0))

\* C27: whenever the checkpoint is written, every URL in it that this run
\* completed by a successful extraction has its row in the table on disk; and
\* after a kill at any point, no URL that a resumed run would skip as
\* completed by extraction is without its row in the table.
C27_DurabilityOrdering ==
    /\ [][progressFile' # progressFile =>
            \A u \in (progressFile'.completed \ loaded) \cap ScenarioExtracted :
                u \in Range(TableRows(csvDisk'))]_vars
    /\ [](pc = "killed" =>
            \A u \in SkippedOnResume \cap ScenarioExtracted :
                u \in Range(TableRows(csvDisk)))

\* C28: wherever the interrupt arrived, once it has been handled every URL
\* with a row of this run in the table is in the persisted completed set, and
\* the resumed run that follows has no URL in its queue whose row is already
\* in the table.
C28_InterruptAtomicity ==
    /\ []((signal # "none" /\ pc = "done") =>
            Range(DataRows(NewRows)) \subseteq progressFile.completed)
    /\ [][(signal # "none" /\ pc = "done" /\ ResumedStart) =>
            Range(pending') \cap Range(DataRows(TableRows(csvDisk))) = {}]_vars

\* No element occurs twice in a sequence.
NoRepeats(q) == \A a, b \in 1..Len(q) : a # b => q[a] # q[b]

\* C29: within one run every URL is passed to flaresolverr_get at most once
\* and has at most one row in the table, also when the URL list holds it on
\* more than one line.
C29_OneFetchPerUrl ==
    /\ NoRepeats(fetched)
    /\ NoRepeats(DataRows(NewRows))

\* s is t with some of its elements left out.
RECURSIVE IsSubSeq(_, _)
IsSubSeq(s, t) ==
    IF s = <<>> THEN TRUE
    ELSE IF t = <<>> THEN FALSE
    ELSE IF Head(s) = Head(t) THEN IsSubSeq(Tail(s), Tail(t))
    ELSE IsSubSeq(s, Tail(t))

FailedUrls(f) == [k \in 1..Len(f) |-> f[k].url]

\* C30: a resumed run starts with an empty failed list whatever the failed
\* list of the checkpoint it loads; its failed list holds exactly one entry
\* for each URL that failed in this run, in processing order; and every
\* checkpoint the run writes holds that list, with total_failed its length
\* and total_completed the size of completed.
C30_FailedListPerRun ==
    /\ [][RunStart => failed' = <<>>]_vars
    /\ [](/\ IsSubSeq(FailedUrls(failed), fetched)
          /\ NoRepeats(FailedUrls(failed)))
    /\ [][failed' # failed =>
            \/ pc' \in {"idle", "killed"} \/ RunStart
            \/ /\ pc = "classify"
               /\ failed' = Append(failed, failed'[Len(failed')])
               /\ failed'[Len(failed')].url = url]_vars
    /\ [][progressFile' # progressFile =>
            /\ progressFile'.failed = failed
            /\ progressFile'.total_failed = Len(failed)
            /\ progressFile'.completed = completed
            /\ progressFile'.total_completed = Cardinality(completed)]_vars

\* C31: a run whose fetch attempts and checkpoint writes all return makes at
\* most MAX_RETRIES attempts for each URL of its queue, takes each queue entry
\* once, and from anywhere in the loop eventually reaches the end of main()'s
\* finally block with the checkpoint written from the in-memory progress.
C31_Termination ==
    /\ [](/\ posts <= MAX_RETRIES /\ attempt <= MAX_RETRIES
          /\ i <= Len(pending) /\ Len(fetched) = i)
    /\ (pc \in LoopPcs) ~>
          (/\ pc \in {"done", "crashed"}
           /\ saves > 0 /\ progressFile = save_progress(completed, failed))

\* A run has ended after both URLs of its queue exhausted their retries.
C31_Witness ==
    /\ pc = "done" /\ exc = "none" /\ i = 2 /\ Len(pending) = 2
    /\ Len(failed) = 2
    /\ \A k \in 1..2 : failed[k].error = "flaresolverr_failed"
    /\ progressFile = save_progress(completed, failed)

====
